---- MODULE Spec2Model ----
(***************************************************************************)
(* Model of the cloud-load simulation kernel: the SimPy event engine as an *)
(* ordered list of pending events, the request generator, the dispatcher   *)
(* workers, the storage nodes, the round-robin load balancer, the          *)
(* autoscaler control loop with its queue-length sampler, and the driver   *)
(* loop of SimulationThread.run that advances simulated time in chunks.    *)
(*                                                                         *)
(* Time is counted in ticks of 0.1 simulated time units (the sampler       *)
(* period of autoscaler.py:236), so every duration of the program is an    *)
(* integer.  Optional values that are None in the code are NoneVal.        *)
(* Dispatcher workers are anonymous: a worker blocked on queue.get() is    *)
(* counted in idle, a worker busy with a request is the pending event (or  *)
(* node wait-list entry) of that request.                                  *)
(***************************************************************************)
EXTENDS Integers, Sequences, FiniteSets, TLC

\* ------------------------------------------------------------------ bounds
\* the generator stops drawing arrivals after this many requests
MaxRequests == 3
\* largest inter-arrival delay drawn, in ticks
MaxInterarrival == 2

\* ------------------------------------------------------- program constants
NoneVal == -1
\* ticks per simulated time unit: the sampler period is 0.1
TicksPerUnit == 10
\* update_interval = 0.5 of the driver loop, in ticks
UpdateInterval == 5
\* max_parallel_processors when max_requests_in_flight is None
DefaultWorkers == 100
\* the queue capacity is max_requests_in_flight * 10
QueueCapacityFactor == 10
\* AutoScaler.required_consecutive_low
RequiredConsecutiveLow == 2
\* MetricsCollector.max_history_size
MaxHistorySize == 10000
\* node_capacity passed by SimulationThread.run
NodeCapacity == 1
\* the period of metrics_collector_loop, 0.1, in ticks
SamplePeriod == 1
\* the timeout of 0.1 a paused loop sleeps before it looks again, in ticks
PausePoll == 1

\* ---------------------------------------------------- configuration record
\* The settings record handed to CloudSystemModel, AutoScaler and the driver
\* loop.  Times are in ticks, the two thresholds in tenths.  No constructor
\* validates the record, so one with initial_nodes outside
\* [min_nodes, max_nodes] is accepted like any other.
BaseConfig ==
    [ initial_nodes |-> 2, min_nodes |-> 1, max_nodes |-> 3,
      max_requests_in_flight |-> 2, max_wait_time |-> 1,
      net_delay_min |-> 0, net_delay_max |-> 1,
      service_time_min |-> 1, service_time_max |-> 2,
      low_threshold10 |-> 2, high_threshold10 |-> 2,
      control_interval |-> 2, scale_cooldown |-> 2,
      simulation_duration |-> 8 ]

\* the base record and records that differ from it in one or two settings
Configs ==
    { BaseConfig,
      [ BaseConfig EXCEPT !.initial_nodes = 1, !.min_nodes = 2 ],
      [ BaseConfig EXCEPT !.initial_nodes = 0, !.min_nodes = 0 ],
      [ BaseConfig EXCEPT !.max_requests_in_flight = NoneVal ],
      [ BaseConfig EXCEPT !.max_requests_in_flight = 1 ],
      [ BaseConfig EXCEPT !.max_requests_in_flight = 1, !.max_wait_time = NoneVal ],
      [ BaseConfig EXCEPT !.net_delay_max = 0 ],
      [ BaseConfig EXCEPT !.initial_nodes = 1, !.scale_cooldown = 3 ],
      [ BaseConfig EXCEPT !.net_delay_min = 4, !.net_delay_max = 4,
                          !.simulation_duration = 11 ] }

VARIABLES
    cfg,                      \* the settings record of the run
    now,                      \* env.now
    evq,                      \* pending events, ordered by time then FIFO
    queue,                    \* model.queue.items (request ids)
    idle,                     \* workers blocked on queue.get()
    requests,                 \* the Request objects, by request_id + 1
    next_request_id,
    processed_requests,
    rejected_requests,
    nodes,                    \* model.nodes: the pool, as node object ids
    nodeObjs,                 \* every StorageNode ever created
    current_index,            \* LoadBalancer.current_index
    is_running,               \* model.is_running
    as_running,               \* autoscaler.is_running
    last_scale_time,
    consecutive_low_intervals,
    interval_start_time,
    interval_queue_lengths,
    metrics_history,
    driver_pc,                \* "run" inside the driver loop, "done" after it
    next_update_time,
    should_stop,
    is_paused,                \* the pause flag of the thread, the model and
                              \* the autoscaler
    put_waiting,              \* the request of a put suspended on a full queue
    mc,                       \* the MetricsCollector
    scale_log,                \* history: times of the scaling actions
    tick_log,                 \* history: one record per control tick
    stop_log,                 \* history: the counts when the flags were cleared
                              \* (empty before)
    call_log                  \* history: the calls made on the pool and the
                              \* load balancer taken on their own (SpecPool)

vars == << cfg, now, evq, queue, idle, requests, next_request_id,
           processed_requests, rejected_requests, nodes, nodeObjs,
           current_index, is_running, as_running, last_scale_time,
           consecutive_low_intervals, interval_start_time,
           interval_queue_lengths, metrics_history, driver_pc,
           next_update_time, should_stop, is_paused, put_waiting, mc,
           scale_log, tick_log, stop_log, call_log >>

\* ---------------------------------------------------------------- helpers
Min(a, b) == IF a <= b THEN a ELSE b

RECURSIVE SumSeq(_)
SumSeq(s) == IF s = << >> THEN 0 ELSE Head(s) + SumSeq(Tail(s))

SeqToSet(s) == { s[i] : i \in 1..Len(s) }

\* env.schedule: the event goes after every pending event due no later
Schedule(q, e) ==
    LET n == Cardinality({ i \in 1..Len(q) : q[i].t <= e.t })
    IN  SubSeq(q, 1, n) \o << e >> \o SubSeq(q, n + 1, Len(q))

Event(t, k, r) == [ t |-> t, k |-> k, r |-> r ]

\* ------------------------------------------------------------ constructors
\* Request(request_id, arrival_time).  Two entries are not fields of the
\* code: node_ref is the StorageNode object the dispatcher holds for the
\* request (an index of nodeObjs), dequeue_time the value of env.now when a
\* worker's queue.get() returned it
Request(id, t) ==
    [ request_id |-> id, arrival_time |-> t, queue_entry_time |-> NoneVal,
      start_time |-> NoneVal, finish_time |-> NoneVal, node_id |-> NoneVal,
      rejected |-> FALSE, rejected_reason |-> "none",
      service_time |-> NoneVal, node_ref |-> NoneVal,
      dequeue_time |-> NoneVal ]

StorageNode(id, capacity) ==
    [ node_id |-> id, capacity |-> capacity, is_active |-> TRUE,
      users |-> << >>, waitq |-> << >> ]

\* mutant: the reason code is not assigned
RejectRequest_NoReason(rq, reason) ==
    [ rq EXCEPT !.rejected = TRUE ]

\* request.rejected = True; request.rejected_reason = reason
RejectRequest(rq, reason) ==
    [ rq EXCEPT !.rejected = TRUE, !.rejected_reason = reason ]

\* mutant: the rejection for want of a node carries the generator's reason
NoNodesRejection_WrongReason(rq) == RejectRequest(rq, "queue_full")

\* _process_request when select_node returned None
NoNodesRejection(rq) == RejectRequest(rq, "no_nodes")

\* mutant: the rejected request is not recorded
AppendRejected_Lost(rejected, r) == rejected

\* mutant: the rejected request is recorded twice
AppendRejected_Twice(rejected, r) == Append(Append(rejected, r), r)

\* self.rejected_requests.append(request)
AppendRejected(rejected, r) == Append(rejected, r)

\* mutant: the served request is not recorded
AppendProcessed_Lost(processed, r) == processed

\* self.processed_requests.append(request)
AppendProcessed(processed, r) == Append(processed, r)

\* Request.get_response_time
get_response_time(rq) ==
    IF rq.finish_time # NoneVal /\ rq.arrival_time # NoneVal
    THEN rq.finish_time - rq.arrival_time
    ELSE NoneVal

\* Request.get_wait_time
get_wait_time(rq) ==
    IF rq.start_time # NoneVal /\ rq.queue_entry_time # NoneVal
    THEN rq.start_time - rq.queue_entry_time
    ELSE NoneVal

\* mutant: the id given to a node is a serial number, not the pool index
add_node_SerialId(p) ==
    [ nodes |-> Append(p.nodes, Len(p.objs) + 1),
      objs  |-> Append(p.objs, StorageNode(Len(p.objs), NodeCapacity)) ]

\* CloudSystemModel.add_node, on a pool p = [nodes, objs]
add_node(p) ==
    [ nodes |-> Append(p.nodes, Len(p.objs) + 1),
      objs  |-> Append(p.objs, StorageNode(Len(p.nodes), NodeCapacity)) ]

\* mutant: the node popped keeps its active flag
remove_node_KeepsFlag(p) ==
    IF Len(p.nodes) > 0
    THEN [ nodes |-> SubSeq(p.nodes, 1, Len(p.nodes) - 1),
           objs  |-> p.objs, result |-> TRUE ]
    ELSE [ nodes |-> p.nodes, objs |-> p.objs, result |-> FALSE ]

\* CloudSystemModel.remove_node, on a pool p = [nodes, objs]: the pool
\* afterwards and the value returned
remove_node(p) ==
    IF Len(p.nodes) > 0
    THEN [ nodes |-> SubSeq(p.nodes, 1, Len(p.nodes) - 1),
           objs  |-> [ p.objs EXCEPT ![p.nodes[Len(p.nodes)]].is_active = FALSE ],
           result |-> TRUE ]
    ELSE [ nodes |-> p.nodes, objs |-> p.objs, result |-> FALSE ]

RECURSIVE InitialPool(_)
InitialPool(k) ==
    IF k = 0 THEN [ nodes |-> << >>, objs |-> << >> ]
    ELSE add_node(InitialPool(k - 1))

\* CloudSystemModel.get_active_nodes, as node object ids in pool order
get_active_nodes(ns, objs) ==
    SelectSeq(ns, LAMBDA n : objs[n].is_active)

\* mutant: one worker for each slot of the initial nodes
NumWorkers_PerSlot(c) == c.initial_nodes * NodeCapacity

\* request_processor: the number of dispatcher workers
NumWorkers(c) ==
    IF c.max_requests_in_flight # NoneVal THEN c.max_requests_in_flight
    ELSE DefaultWorkers

\* queue_capacity of CloudSystemModel.__init__ (NoneVal: unbounded)
QueueCapacity(c) ==
    IF c.max_requests_in_flight = NoneVal THEN NoneVal
    ELSE c.max_requests_in_flight * QueueCapacityFactor

\* generate_network_delay: the values the draw can return
NetworkDelays(c) ==
    IF c.net_delay_max > c.net_delay_min
    THEN c.net_delay_min .. c.net_delay_max
    ELSE { c.net_delay_min }

\* mutant: the service-time range starts at zero
ServiceTimes_FromZero(c) == 0 .. c.service_time_max

\* generate_service_time: the values the draw can return
ServiceTimes(c) == c.service_time_min .. c.service_time_max

\* MetricsCollector.__init__
MetricsCollector(max_history_size) ==
    [ max_history_size |-> max_history_size,
      time_series |-> << >>, queue_length_series |-> << >>,
      nodes_count_series |-> << >>, avg_response_time_series |-> << >>,
      total_requests |-> 0, processed_requests |-> << >>,
      rejected_requests |-> << >> ]

\* ------------------------------------------------------------------- Init
\* The state in SimulationThread.run after the three processes are created
\* and before the first env.run: their first steps are pending at time 0.
InitOf(c) ==
    /\ cfg = c
    /\ now = 0
    /\ evq = << Event(0, "gen_start", NoneVal), Event(0, "proc_start", NoneVal),
                Event(0, "ctrl_start", NoneVal) >>
    /\ queue = << >>
    /\ idle = 0
    /\ requests = << >>
    /\ next_request_id = 0
    /\ processed_requests = << >>
    /\ rejected_requests = << >>
    /\ nodes = InitialPool(cfg.initial_nodes).nodes
    /\ nodeObjs = InitialPool(cfg.initial_nodes).objs
    /\ current_index = 0
    /\ is_running = TRUE
    /\ as_running = TRUE
    /\ last_scale_time = 0
    /\ consecutive_low_intervals = 0
    /\ interval_start_time = 0
    /\ interval_queue_lengths = << >>
    /\ metrics_history = << >>
    /\ driver_pc = "run"
    /\ next_update_time = UpdateInterval
    /\ should_stop = FALSE
    /\ is_paused = FALSE
    /\ put_waiting = NoneVal
    /\ mc = MetricsCollector(MaxHistorySize)
    /\ scale_log = << >>
    /\ tick_log = << >>
    /\ stop_log = << >>
    /\ call_log = << >>

Init == \E c \in Configs : InitOf(c)

\* ----------------------------------------------------------- event engine
\* mutant: the chunk is not clamped to the end of the run
target_time_Unclamped == next_update_time

\* target_time of the driver loop
target_time == Min(next_update_time, cfg.simulation_duration)

\* env.run(until=target_time) steps the first pending event while it is due
\* strictly before target_time
Due(k) ==
    /\ driver_pc = "run"
    /\ evq # << >>
    /\ Head(evq).k = k
    /\ Head(evq).t < target_time

Rest == Tail(evq)
T == Head(evq).t

\* the groups of variables an action may leave alone
requestVars == << requests, next_request_id, processed_requests, rejected_requests >>
poolVars == << nodes, nodeObjs >>
scalerVars == << last_scale_time, consecutive_low_intervals, interval_start_time,
                 interval_queue_lengths, metrics_history, scale_log, tick_log >>
driverVars == << cfg, driver_pc, next_update_time, should_stop, is_paused, mc,
                 is_running, as_running, stop_log, call_log >>

\* mutant: the flag is not looked at after the suspension
StillRunning_Unchecked(flag) == TRUE

\* the test of its running flag a loop makes when its timeout is over
\* (if not self.is_running: break)
StillRunning(flag) == flag

\* ------------------------------------------------------ request generator
\* The number of arrivals drawn in a run: one more under a network delay of
\* at least twice the longest service, which holds the workers long enough
\* for the queue to build up
ArrivalBound(c) ==
    IF c.net_delay_min >= 2 * c.service_time_max THEN MaxRequests + 1
    ELSE MaxRequests

\* The top of request_generator's loop: it leaves the loop when is_running
\* is cleared, sleeps PausePoll and comes back when the model is paused,
\* else draws an inter-arrival delay and suspends for it.  Past
\* ArrivalBound the delay drawn ends after the run.
GeneratorLoop(ev, t, running, created) ==
    IF ~running \/ created >= ArrivalBound(cfg) THEN { ev }
    ELSE IF is_paused THEN { Schedule(ev, Event(t + PausePoll, "gen_start", NoneVal)) }
    ELSE { Schedule(ev, Event(t + ia, "arrive", NoneVal)) : ia \in 1..MaxInterarrival }

\* request_generator arrives at the top of its loop: its first step, or
\* the end of a sleep it took because the model was paused
GeneratorStart ==
    /\ Due("gen_start")
    /\ now' = T
    /\ evq' \in GeneratorLoop(Rest, T, is_running, next_request_id)
    /\ UNCHANGED << queue, idle, requestVars, poolVars, current_index,
                    scalerVars, driverVars, put_waiting >>

\* current_in_system of request_generator: queued plus slot holders of the
\* nodes in the pool
current_in_system ==
    Len(queue) + SumSeq([ i \in 1..Len(nodes) |-> Len(nodeObjs[nodes[i]].users) ])

\* mutant: the cap check lets one request more in
OverCap_Strict(inSystem, c) ==
    /\ c.max_requests_in_flight # NoneVal
    /\ inSystem > c.max_requests_in_flight

\* the in-flight cap check of request_generator
OverCap(inSystem, c) ==
    /\ c.max_requests_in_flight # NoneVal
    /\ inSystem >= c.max_requests_in_flight

\* Store._do_put: whether the put succeeds at once
QueueHasRoom(q, c) ==
    QueueCapacity(c) = NoneVal \/ Len(q) < QueueCapacity(c)

\* mutant: the id counter is not advanced
NextRequestId_Stuck(id) == id

\* self.next_request_id += 1
NextRequestId(id) == id + 1

\* request_generator woken by its inter-arrival timeout: one arrival
Arrive ==
    /\ Due("arrive")
    /\ now' = T
    /\ IF ~StillRunning(is_running)
       THEN /\ evq' = Rest
            /\ UNCHANGED << queue, requestVars, put_waiting >>
       ELSE \E st \in ServiceTimes(cfg) :
            LET r  == next_request_id
                rq == [ Request(r, T) EXCEPT !.service_time = st ]
            IN  /\ next_request_id' = NextRequestId(r)
                /\ UNCHANGED processed_requests
                /\ IF OverCap(current_in_system, cfg)
                   THEN /\ requests' = Append(requests, RejectRequest(rq, "queue_full"))
                        /\ rejected_requests' = AppendRejected(rejected_requests, r)
                        /\ evq' \in GeneratorLoop(Rest, T, is_running, r + 1)
                        /\ UNCHANGED << queue, put_waiting >>
                   ELSE /\ requests' = Append(requests,
                               [ rq EXCEPT !.queue_entry_time = T ])
                        /\ UNCHANGED rejected_requests
                        /\ IF QueueHasRoom(queue, cfg)
                           THEN /\ queue' = Append(queue, r)
                                /\ evq' = Schedule(Rest, Event(T, "put", NoneVal))
                                /\ UNCHANGED put_waiting
                           ELSE /\ put_waiting' = r
                                /\ evq' = Rest
                                /\ UNCHANGED queue
    /\ UNCHANGED << idle, poolVars, current_index, scalerVars, driverVars >>

\* mutant: the queue hands out its newest item
StoreGet_Newest(q) ==
    [ item |-> q[Len(q)], items |-> SubSeq(q, 1, Len(q) - 1) ]

\* Store._do_get on the non-empty list q of items: the item handed to the
\* getter and the items left
StoreGet(q) == [ item |-> Head(q), items |-> Tail(q) ]

\* The put event is processed: Store._trigger_get hands the head of the
\* queue to a waiting worker, then request_generator resumes at its loop top
Put ==
    /\ Due("put")
    /\ now' = T
    /\ LET handoff == idle > 0 /\ queue # << >>
           ev1 == IF handoff
                  THEN Schedule(Rest, Event(T, "dispatch", StoreGet(queue).item))
                  ELSE Rest
       IN  /\ queue' = IF handoff THEN StoreGet(queue).items ELSE queue
           /\ idle' = IF handoff THEN idle - 1 ELSE idle
           /\ evq' \in GeneratorLoop(ev1, T, is_running, next_request_id)
    /\ UNCHANGED << requestVars, poolVars, current_index, scalerVars,
                    driverVars, put_waiting >>

\* ------------------------------------------------------ dispatcher workers
\* n workers that found the model paused at the top of their loop, each
\* sleeping until time t
RECURSIVE WorkerPolls(_, _, _)
WorkerPolls(ev, t, n) ==
    IF n = 0 THEN ev
    ELSE WorkerPolls(Schedule(ev, Event(t, "loop", NoneVal)), t, n - 1)

\* request_processor's first step starts the workers, each of which runs
\* to its first queue.get() on the empty queue, and enters the supervising
\* loop that sleeps one time unit at a time
ProcessorStart ==
    /\ Due("proc_start")
    /\ now' = T
    /\ evq' = IF is_running
              THEN Schedule(IF is_paused
                            THEN WorkerPolls(Rest, T + PausePoll, NumWorkers(cfg))
                            ELSE Rest,
                            Event(T + TicksPerUnit, "supervise", NoneVal))
              ELSE Rest
    /\ idle' = IF is_running /\ ~is_paused THEN NumWorkers(cfg) ELSE 0
    /\ UNCHANGED << queue, requestVars, poolVars, current_index, scalerVars,
                    driverVars, put_waiting >>

\* request_processor woken by its timeout of one time unit
Supervise ==
    /\ Due("supervise")
    /\ now' = T
    /\ evq' = IF StillRunning(is_running)
              THEN Schedule(Rest, Event(T + TicksPerUnit, "supervise", NoneVal))
              ELSE Rest
    /\ UNCHANGED << queue, idle, requestVars, poolVars, current_index, scalerVars,
                    driverVars, put_waiting >>

\* The top of _single_request_processor's loop on state w = [queue, idle,
\* evq]: the worker leaves when is_running is cleared, sleeps PausePoll and
\* comes back when the model is paused, takes the head of the queue at once
\* if there is one, else waits in the queue's get list
WorkerLoopTop(w, t, running) ==
    IF ~running THEN w
    ELSE IF is_paused
    THEN [ w EXCEPT !.evq = Schedule(w.evq, Event(t + PausePoll, "loop", NoneVal)) ]
    ELSE IF w.queue # << >>
    THEN [ w EXCEPT !.queue = StoreGet(w.queue).items,
                    !.evq = Schedule(w.evq, Event(t, "dispatch", StoreGet(w.queue).item)) ]
    ELSE [ w EXCEPT !.idle = w.idle + 1 ]

\* Store._trigger_put, run when a get event is processed: a put suspended
\* on the full queue goes in once there is room
AdmitWaitingPut(w, t, pw, c) ==
    IF pw # NoneVal /\ QueueHasRoom(w.queue, c)
    THEN [ w EXCEPT !.queue = Append(w.queue, pw),
                    !.evq = Schedule(w.evq, Event(t, "put", NoneVal)) ]
    ELSE w

\* mutant: the cursor is not advanced
select_node_NoAdvance(idx, ns, objs) ==
    LET active_nodes == SelectSeq(ns, LAMBDA n : objs[n].is_active)
    IN  IF ns = << >> \/ active_nodes = << >>
        THEN [ node |-> NoneVal, index |-> idx ]
        ELSE [ node  |-> active_nodes[(idx % Len(active_nodes)) + 1],
               index |-> idx % Len(active_nodes) ]

\* mutant: the nodes are not filtered by their active flag
select_node_NoFilter(idx, ns, objs) ==
    IF ns = << >>
    THEN [ node |-> NoneVal, index |-> idx ]
    ELSE [ node  |-> ns[(idx % Len(ns)) + 1],
           index |-> (idx + 1) % Len(ns) ]

\* mutant: the cursor moves on by two
select_node_StepsTwo(idx, ns, objs) ==
    LET active_nodes == SelectSeq(ns, LAMBDA n : objs[n].is_active)
    IN  IF ns = << >> \/ active_nodes = << >>
        THEN [ node |-> NoneVal, index |-> idx ]
        ELSE [ node  |-> active_nodes[(idx % Len(active_nodes)) + 1],
               index |-> (idx + 2) % Len(active_nodes) ]

\* LoadBalancer.select_node on the list ns of node objects: the node chosen
\* (NoneVal for None) and the cursor afterwards
select_node(idx, ns, objs) ==
    LET active_nodes == SelectSeq(ns, LAMBDA n : objs[n].is_active)
    IN  IF ns = << >> \/ active_nodes = << >>
        THEN [ node |-> NoneVal, index |-> idx ]
        ELSE [ node  |-> active_nodes[(idx % Len(active_nodes)) + 1],
               index |-> (idx + 1) % Len(active_nodes) ]

\* mutant: a wait equal to max_wait_time is rejected too
WaitTimedOut_AtLimit(rq, t, c) ==
    /\ c.max_wait_time # NoneVal
    /\ rq.queue_entry_time # NoneVal
    /\ t - rq.queue_entry_time >= c.max_wait_time

\* the max-wait check of _single_request_processor
WaitTimedOut(rq, t, c) ==
    /\ c.max_wait_time # NoneVal
    /\ rq.queue_entry_time # NoneVal
    /\ t - rq.queue_entry_time > c.max_wait_time

\* A worker resumes from queue.get() with request r: the wait check, then
\* _process_request up to its network-delay timeout
Dispatch ==
    /\ Due("dispatch")
    /\ now' = T
    /\ LET r  == Head(evq).r
           rq == [ requests[r + 1] EXCEPT !.dequeue_time = T ]
           w0 == AdmitWaitingPut([ queue |-> queue, idle |-> idle, evq |-> Rest ],
                                 T, put_waiting, cfg)
           sel == select_node(current_index, get_active_nodes(nodes, nodeObjs), nodeObjs)
       IN  /\ put_waiting' = IF w0.queue # queue THEN NoneVal ELSE put_waiting
           /\ IF WaitTimedOut(rq, T, cfg)
              THEN LET w1 == WorkerLoopTop(w0, T, is_running)
                   IN  /\ requests' = [ requests EXCEPT
                                            ![r + 1] = RejectRequest(rq, "wait_timeout") ]
                       /\ rejected_requests' = AppendRejected(rejected_requests, r)
                       /\ queue' = w1.queue /\ idle' = w1.idle /\ evq' = w1.evq
                       /\ UNCHANGED current_index
              ELSE IF sel.node = NoneVal
              THEN /\ requests' = [ requests EXCEPT
                                        ![r + 1] = NoNodesRejection(rq) ]
                   /\ rejected_requests' = AppendRejected(rejected_requests, r)
                   /\ queue' = w0.queue /\ idle' = w0.idle
                   /\ evq' = Schedule(w0.evq, Event(T, "loop", NoneVal))
                   /\ current_index' = sel.index
              ELSE \E nd \in NetworkDelays(cfg) :
                   /\ requests' = [ requests EXCEPT
                                        ![r + 1] = [ rq EXCEPT !.node_ref = sel.node ] ]
                   /\ UNCHANGED rejected_requests
                   /\ queue' = w0.queue /\ idle' = w0.idle
                   /\ evq' = Schedule(w0.evq, Event(T + nd, "net", r))
                   /\ current_index' = sel.index
    /\ UNCHANGED << next_request_id, processed_requests, poolVars, scalerVars,
                    driverVars >>

\* mutant: a slot is granted whatever the number of holders
SlotFree_Always(o) == TRUE

\* Resource._do_put: node object o has a free slot
SlotFree(o) == Len(o.users) < o.capacity

\* The network delay of request r is over: StorageNode.process_request
\* stamps the request and asks the node for a slot
NetDone ==
    /\ Due("net")
    /\ now' = T
    /\ LET r == Head(evq).r
           n == requests[r + 1].node_ref
           free == SlotFree(nodeObjs[n])
       IN  /\ requests' = [ requests EXCEPT ![r + 1].node_id = nodeObjs[n].node_id,
                                            ![r + 1].start_time = T ]
           /\ IF free
              THEN /\ nodeObjs' = [ nodeObjs EXCEPT ![n].users = Append(@, r) ]
                   /\ evq' = Schedule(Rest, Event(T, "grant", r))
              ELSE /\ nodeObjs' = [ nodeObjs EXCEPT ![n].waitq = Append(@, r) ]
                   /\ evq' = Rest
    /\ UNCHANGED << queue, idle, next_request_id, processed_requests,
                    rejected_requests, nodes, current_index, scalerVars,
                    driverVars, put_waiting >>

\* the slot request of r is granted: process_request suspends for the
\* service time
Grant ==
    /\ Due("grant")
    /\ now' = T
    /\ LET r == Head(evq).r
       IN  evq' = Schedule(Rest, Event(T + requests[r + 1].service_time, "svc", r))
    /\ UNCHANGED << queue, idle, requestVars, poolVars, current_index,
                    scalerVars, driverVars, put_waiting >>

\* The service of r is over: finish_time is stamped, the slot released, and
\* _process_request appends r to processed_requests and ends
ServiceDone ==
    /\ Due("svc")
    /\ now' = T
    /\ LET r == Head(evq).r
           n == requests[r + 1].node_ref
       IN  /\ requests' = [ requests EXCEPT ![r + 1].finish_time = T ]
           /\ nodeObjs' = [ nodeObjs EXCEPT ![n].users = SelectSeq(@, LAMBDA u : u # r) ]
           /\ processed_requests' = AppendProcessed(processed_requests, r)
           /\ evq' = Schedule(Schedule(Rest, Event(T, "release", n)),
                              Event(T, "loop", NoneVal))
    /\ UNCHANGED << queue, idle, next_request_id, rejected_requests, nodes,
                    current_index, scalerVars, driverVars, put_waiting >>

\* The release event of node object n is processed: Resource._trigger_put
\* grants the freed slot to the first waiter
Release ==
    /\ Due("release")
    /\ now' = T
    /\ LET n == Head(evq).r
           o == nodeObjs[n]
       IN  IF o.waitq # << >> /\ SlotFree(o)
           THEN /\ nodeObjs' = [ nodeObjs EXCEPT ![n].users = Append(@, Head(o.waitq)),
                                                 ![n].waitq = Tail(@) ]
                /\ evq' = Schedule(Rest, Event(T, "grant", Head(o.waitq)))
           ELSE /\ evq' = Rest
                /\ UNCHANGED nodeObjs
    /\ UNCHANGED << queue, idle, requestVars, nodes, current_index, scalerVars,
                    driverVars, put_waiting >>

\* a worker resumes after _process_request ended, or after a sleep it took
\* because the model was paused, and loops
WorkerLoop ==
    /\ Due("loop")
    /\ now' = T
    /\ LET w == WorkerLoopTop([ queue |-> queue, idle |-> idle, evq |-> Rest ],
                              T, is_running)
       IN  queue' = w.queue /\ idle' = w.idle /\ evq' = w.evq
    /\ UNCHANGED << requestVars, poolVars, current_index, scalerVars,
                    driverVars, put_waiting >>

\* -------------------------------------------------------------- autoscaler
\* Averages are kept as fractions n / d with d > 0, thresholds are read as
\* tenths, so that comparisons are exact
Rat(n, d) == [ n |-> n, d |-> d ]
Greater(a, b) == a.n * b.d > b.n * a.d
Less(a, b) == a.n * b.d < b.n * a.d
low_threshold(c) == Rat(c.low_threshold10, 10)
high_threshold(c) == Rat(c.high_threshold10, 10)

\* the response times of the requests in the list ids, in ticks
ResponseTimes(ids, reqs) ==
    LET done == SelectSeq(ids, LAMBDA r : get_response_time(reqs[r + 1]) # NoneVal)
    IN  [ i \in 1..Len(done) |-> get_response_time(reqs[done[i] + 1]) ]

\* the mean of a list of response times in time units, 0.0 when it is empty
MeanResponseTime(rts) ==
    IF rts # << >> THEN Rat(SumSeq(rts), Len(rts) * TicksPerUnit) ELSE Rat(0, 1)

\* _calculate_interval_metrics: the samples after the final one is added
IntervalSamples(samples, end, cur) ==
    IF samples = << >> \/ samples[Len(samples)][1] < end
    THEN Append(samples, << end, cur >>)
    ELSE samples

\* _calculate_interval_metrics: the time-weighted mean of the samples
IntervalQueueLength(samples, cur) ==
    IF Len(samples) > 1
    THEN LET steps == { i \in 1..(Len(samples) - 1) : samples[i + 1][1] - samples[i][1] > 0 }
             dt(i) == samples[i + 1][1] - samples[i][1]
             area2 == SumSeq([ i \in 1..(Len(samples) - 1) |->
                          IF i \in steps THEN (samples[i][2] + samples[i + 1][2]) * dt(i) ELSE 0 ])
             total_time == SumSeq([ i \in 1..(Len(samples) - 1) |->
                          IF i \in steps THEN dt(i) ELSE 0 ])
         IN  IF total_time > 0 THEN Rat(area2, 2 * total_time) ELSE Rat(cur, 1)
    ELSE IF samples # << >> THEN Rat(samples[Len(samples)][2], 1)
    ELSE Rat(cur, 1)

\* _calculate_interval_metrics: the requests that finished in the interval
FinishedInInterval(ids, reqs, start, end) ==
    SelectSeq(ids, LAMBDA r :
        /\ get_response_time(reqs[r + 1]) # NoneVal
        /\ reqs[r + 1].finish_time # NoneVal
        /\ reqs[r + 1].finish_time >= start
        /\ reqs[r + 1].finish_time <= end)

\* mutant: no fallback to the overall mean
IntervalResponseTime_NoFallback(ids, reqs, start, end) ==
    MeanResponseTime(ResponseTimes(FinishedInInterval(ids, reqs, start, end), reqs))

\* _calculate_interval_metrics: the mean response time of the interval,
\* the overall mean when nothing finished in it
IntervalResponseTime(ids, reqs, start, end) ==
    LET interval_response_times == ResponseTimes(FinishedInInterval(ids, reqs, start, end), reqs)
    IN  IF interval_response_times # << >>
        THEN MeanResponseTime(interval_response_times)
        ELSE MeanResponseTime(ResponseTimes(ids, reqs))

\* AutoScaler._calculate_interval_metrics at the tick at time end
calculate_interval_metrics(end) ==
    [ queue_length |-> IntervalQueueLength(
                           IntervalSamples(interval_queue_lengths, end, Len(queue)),
                           Len(queue)),
      avg_response_time |-> IntervalResponseTime(processed_requests, requests,
                                                 interval_start_time, end),
      active_nodes |-> Len(get_active_nodes(nodes, nodeObjs)) ]

\* The controller's state during a tick: the pool, last_scale_time, the
\* consecutive-low counter, and whether a scaling action was taken
\*   st = [ nodes, objs, last, low, acted ]
\* mutant: the cooldown is not checked
cooldown_ok_Ignored(st, t, c) == TRUE

cooldown_ok(st, t, c) == t - st.last >= c.scale_cooldown

\* mutant: only the queue length is compared with the high threshold
should_scale_up_QueueOnly(m, st, t, c) ==
    /\ Greater(m.queue_length, high_threshold(c))
    /\ Len(get_active_nodes(st.nodes, st.objs)) < c.max_nodes
    /\ cooldown_ok(st, t, c)

\* AutoScaler.should_scale_up
should_scale_up(m, st, t, c) ==
    /\ \/ Greater(m.queue_length, high_threshold(c))
       \/ Greater(m.avg_response_time, high_threshold(c))
    /\ Len(get_active_nodes(st.nodes, st.objs)) < c.max_nodes
    /\ cooldown_ok(st, t, c)

\* the guard of AutoScaler.should_scale_down
scale_down_condition(m, st, t, c) ==
    /\ Less(m.queue_length, low_threshold(c))
    /\ Less(m.avg_response_time, low_threshold(c))
    /\ Len(get_active_nodes(st.nodes, st.objs)) > c.min_nodes
    /\ cooldown_ok(st, t, c)

\* mutant: the first qualifying interval already triggers the scale-down
should_scale_down_NoStreak(m, st, t, c) ==
    IF scale_down_condition(m, st, t, c)
    THEN [ result |-> TRUE, low |-> st.low + 1 ]
    ELSE [ result |-> FALSE, low |-> 0 ]

\* mutant: a failed condition leaves the counter as it was
should_scale_down_NoReset(m, st, t, c) ==
    IF scale_down_condition(m, st, t, c)
    THEN [ result |-> st.low + 1 >= RequiredConsecutiveLow, low |-> st.low + 1 ]
    ELSE [ result |-> FALSE, low |-> st.low ]

\* AutoScaler.should_scale_down: its result and the counter it leaves
should_scale_down(m, st, t, c) ==
    IF scale_down_condition(m, st, t, c)
    THEN [ result |-> st.low + 1 >= RequiredConsecutiveLow, low |-> st.low + 1 ]
    ELSE [ result |-> FALSE, low |-> 0 ]

\* mutant: a scale-up adds two nodes
scale_up_Twice(st, t, c) ==
    IF Len(get_active_nodes(st.nodes, st.objs)) < c.max_nodes
    THEN LET p == add_node(add_node([ nodes |-> st.nodes, objs |-> st.objs ]))
         IN  [ nodes |-> p.nodes, objs |-> p.objs, last |-> t, low |-> 0,
               acted |-> TRUE ]
    ELSE st

\* AutoScaler.scale_up
scale_up(st, t, c) ==
    IF Len(get_active_nodes(st.nodes, st.objs)) < c.max_nodes
    THEN LET p == add_node([ nodes |-> st.nodes, objs |-> st.objs ])
         IN  [ nodes |-> p.nodes, objs |-> p.objs, last |-> t, low |-> 0,
               acted |-> TRUE ]
    ELSE st

\* AutoScaler.scale_down
scale_down(st, t, c) ==
    IF Len(get_active_nodes(st.nodes, st.objs)) > c.min_nodes
    THEN LET p == remove_node([ nodes |-> st.nodes, objs |-> st.objs ])
         IN  [ nodes |-> p.nodes, objs |-> p.objs, last |-> t, low |-> 0,
               acted |-> TRUE ]
    ELSE st

\* the scaling decision of control_loop
scaling_decision(m, st, t, c) ==
    IF should_scale_up(m, st, t, c) THEN scale_up(st, t, c)
    ELSE LET d == should_scale_down(m, st, t, c)
             s1 == [ st EXCEPT !.low = d.low ]
         IN  IF d.result THEN scale_down(s1, t, c) ELSE s1

\* The top of control_loop's loop: it leaves when is_running is cleared,
\* sleeps PausePoll and comes back when the autoscaler is paused, else
\* suspends for control_interval
ControlLoopTop(ev, t, running) ==
    IF ~running THEN ev
    ELSE IF is_paused THEN Schedule(ev, Event(t + PausePoll, "tick_poll", NoneVal))
    ELSE Schedule(ev, Event(t + cfg.control_interval, "tick", NoneVal))

\* The top of metrics_collector_loop's loop, likewise
SamplerLoopTop(ev, t, running) ==
    IF ~running THEN ev
    ELSE IF is_paused THEN Schedule(ev, Event(t + PausePoll, "sample_poll", NoneVal))
    ELSE Schedule(ev, Event(t + SamplePeriod, "sample", NoneVal))

\* the first step of control_loop, which also starts metrics_collector_loop
ControlStart ==
    /\ Due("ctrl_start")
    /\ now' = T
    /\ interval_start_time' = T
    /\ evq' = SamplerLoopTop(ControlLoopTop(Rest, T, as_running), T, as_running)
    /\ UNCHANGED << queue, idle, requestVars, poolVars, current_index,
                    last_scale_time, consecutive_low_intervals,
                    interval_queue_lengths, metrics_history, scale_log,
                    tick_log, driverVars, put_waiting >>

\* metrics_collector_loop woken by its timeout: one queue-length sample
Sample ==
    /\ Due("sample")
    /\ now' = T
    /\ IF ~StillRunning(as_running)
       THEN /\ evq' = Rest
            /\ UNCHANGED interval_queue_lengths
       ELSE /\ interval_queue_lengths' = Append(interval_queue_lengths, << T, Len(queue) >>)
            /\ evq' = SamplerLoopTop(Rest, T, as_running)
    /\ UNCHANGED << queue, idle, requestVars, poolVars, current_index,
                    last_scale_time, consecutive_low_intervals,
                    interval_start_time, metrics_history, scale_log, tick_log,
                    driverVars, put_waiting >>

\* control_loop woken by its control_interval timeout: one control tick
Tick ==
    /\ Due("tick")
    /\ now' = T
    /\ IF ~StillRunning(as_running)
       THEN /\ evq' = Rest
            /\ UNCHANGED << poolVars, scalerVars >>
       ELSE LET m  == calculate_interval_metrics(T)
                s0 == [ nodes |-> nodes, objs |-> nodeObjs, last |-> last_scale_time,
                        low |-> consecutive_low_intervals, acted |-> FALSE ]
                s1 == scaling_decision(m, s0, T, cfg)
            IN  /\ metrics_history' = Append(metrics_history, [ time |-> T ] @@ m)
                /\ nodes' = s1.nodes
                /\ nodeObjs' = s1.objs
                /\ last_scale_time' = s1.last
                /\ consecutive_low_intervals' = s1.low
                /\ interval_start_time' = T
                /\ interval_queue_lengths' = << >>
                /\ scale_log' = IF s1.acted THEN Append(scale_log, T) ELSE scale_log
                /\ tick_log' = Append(tick_log,
                       [ time |-> T,
                         low |-> scale_down_condition(m, s0, T, cfg),
                         before |-> Len(nodes), after |-> Len(s1.nodes) ])
                /\ evq' = ControlLoopTop(Rest, T, as_running)
    /\ UNCHANGED << queue, idle, requestVars, current_index, driverVars,
                    put_waiting >>

\* metrics_collector_loop back from a sleep it took because the autoscaler
\* was paused
SamplerPoll ==
    /\ Due("sample_poll")
    /\ now' = T
    /\ evq' = SamplerLoopTop(Rest, T, as_running)
    /\ UNCHANGED << queue, idle, requestVars, poolVars, current_index,
                    scalerVars, driverVars, put_waiting >>

\* control_loop back from a sleep it took because the autoscaler was paused
ControlPoll ==
    /\ Due("tick_poll")
    /\ now' = T
    /\ evq' = ControlLoopTop(Rest, T, as_running)
    /\ UNCHANGED << queue, idle, requestVars, poolVars, current_index,
                    scalerVars, driverVars, put_waiting >>

\* ------------------------------------------------------------ driver loop
\* MetricsCollector.update_requests
update_requests(c, processed, rejected) ==
    [ c EXCEPT !.processed_requests = processed,
               !.rejected_requests = rejected,
               !.total_requests = Len(processed) + Len(rejected) ]

\* mutant: update_requests moves the requests out of the lists it is given
ListsAfterUpdate_Drained(processed, rejected) ==
    [ processed |-> << >>, rejected |-> << >> ]

\* update_requests is handed the model's own two lists: it stores a copy()
\* of each and leaves the lists it was given as they are
ListsAfterUpdate(processed, rejected) ==
    [ processed |-> processed, rejected |-> rejected ]

\* mutant: the deque never drops its oldest entry
DequeAppend_Unbounded(d, x, maxlen) == Append(d, x)

\* the append of a deque(maxlen = max_history_size)
DequeAppend(d, x, maxlen) ==
    IF Len(d) >= maxlen THEN Append(Tail(d), x) ELSE Append(d, x)

\* MetricsCollector.record_snapshot
record_snapshot(c, sim_time, queue_length, nodes_count, avg_response_time) ==
    [ c EXCEPT !.time_series = DequeAppend(@, sim_time, c.max_history_size),
               !.queue_length_series = DequeAppend(@, queue_length, c.max_history_size),
               !.nodes_count_series = DequeAppend(@, nodes_count, c.max_history_size),
               !.avg_response_time_series =
                   DequeAppend(@, avg_response_time, c.max_history_size) ]

\* mutant: the area under the queue length is divided by the number of steps
AvgQueueLength_PerStep(ts, qs) ==
    IF Len(ts) > 1 /\ Len(qs) > 1
    THEN Rat(SumSeq([ i \in 1..(Len(ts) - 1) |-> qs[i] * (ts[i + 1] - ts[i]) ]),
             Len(ts) - 1)
    ELSE IF qs # << >> THEN Rat(SumSeq(qs), Len(qs))
    ELSE Rat(0, 1)

\* get_aggregated_metrics: avg_queue_length of the series ts (times) and qs
\* (queue lengths).  Each step of the loop weighs the queue length at its
\* left end with the length of the step.
AvgQueueLength(ts, qs) ==
    IF Len(ts) > 1 /\ Len(qs) > 1
    THEN LET total_area == SumSeq([ i \in 1..(Len(ts) - 1) |->
                                      qs[i] * (ts[i + 1] - ts[i]) ])
             total_time == SumSeq([ i \in 1..(Len(ts) - 1) |-> ts[i + 1] - ts[i] ])
         IN  IF total_time > 0 THEN Rat(total_area, total_time)
             ELSE Rat(qs[Len(qs)], 1)
    ELSE IF qs # << >> THEN Rat(SumSeq(qs), Len(qs))
    ELSE Rat(0, 1)

\* MetricsCollector.get_aggregated_metrics: the counts and the queue average
get_aggregated_metrics(c) ==
    [ total_requests |-> c.total_requests,
      processed_requests |-> Len(c.processed_requests),
      rejected_requests |-> Len(c.rejected_requests),
      avg_queue_length |-> AvgQueueLength(c.time_series, c.queue_length_series) ]

\* CloudSystemModel.get_system_state
get_system_state ==
    [ sim_time |-> now,
      queue_length |-> Len(queue),
      active_nodes |-> Len(get_active_nodes(nodes, nodeObjs)),
      total_nodes |-> Len(nodes),
      processed_count |-> Len(processed_requests),
      rejected_count |-> Len(rejected_requests) ]

\* MetricsCollector.get_current_metrics at simulated time t
get_current_metrics(t) ==
    [ sim_time |-> t,
      queue_length |-> Len(queue),
      active_nodes |-> Len(get_active_nodes(nodes, nodeObjs)),
      avg_response_time |-> MeanResponseTime(ResponseTimes(processed_requests, requests)) ]

\* what the run had done when its running flags were cleared
StopRecord ==
    [ created |-> next_request_id, processed |-> Len(processed_requests),
      samples |-> Len(interval_queue_lengths), scalings |-> Len(scale_log) ]

\* env.run(until=target_time) returns, with no event left that is due
\* before target_time; the driver records its snapshot and tests its loop
\* condition, and past the loop clears the running flags; in the loop it
\* enters the next env.run unless the thread is paused, and then sleeps
ChunkEnd ==
    /\ driver_pc = "run"
    /\ IF evq = << >> THEN TRUE ELSE Head(evq).t >= target_time
    /\ now' = target_time
    /\ LET cm == get_current_metrics(target_time)
       IN  mc' = record_snapshot(
                     update_requests(mc, processed_requests, rejected_requests),
                     cm.sim_time, cm.queue_length, cm.active_nodes,
                     cm.avg_response_time)
    /\ next_update_time' = next_update_time + UpdateInterval
    /\ IF target_time < cfg.simulation_duration /\ ~should_stop
       THEN /\ driver_pc' = IF is_paused THEN "paused" ELSE "run"
            /\ UNCHANGED << is_running, as_running >>
       ELSE /\ driver_pc' = "done"
            /\ is_running' = FALSE
            /\ as_running' = FALSE
    /\ LET ls == ListsAfterUpdate(processed_requests, rejected_requests)
       IN  /\ processed_requests' = ls.processed
           /\ rejected_requests' = ls.rejected
    /\ stop_log' = IF driver_pc' = "done" /\ stop_log = << >>
                   THEN << StopRecord >> ELSE stop_log
    /\ UNCHANGED << cfg, evq, queue, idle, requests, next_request_id, poolVars,
                    current_index, scalerVars, should_stop, is_paused, put_waiting,
                    call_log >>

\* SimulationThread.stop, called from the interface thread
Stop ==
    /\ driver_pc # "done"
    /\ ~should_stop
    /\ should_stop' = TRUE
    /\ is_running' = FALSE
    /\ as_running' = FALSE
    /\ stop_log' = << StopRecord >>
    /\ UNCHANGED << cfg, now, evq, queue, idle, requestVars, poolVars,
                    current_index, scalerVars, driver_pc, next_update_time, mc,
                    is_paused, put_waiting, call_log >>

Next ==
    \/ GeneratorStart
    \/ Arrive
    \/ Put
    \/ ProcessorStart
    \/ Supervise
    \/ Dispatch
    \/ NetDone
    \/ Grant
    \/ ServiceDone
    \/ Release
    \/ WorkerLoop
    \/ ControlStart
    \/ Sample
    \/ Tick
    \/ ChunkEnd
    \/ Stop

Spec == Init /\ [][Next]_vars

\* the pause() calls made so far
PauseCount == Cardinality({ i \in 1..Len(call_log) : call_log[i].op = "pause" })

\* ------------------------------------------------------- pause and resume
\* The runs of Spec are those in which the interface never calls pause().
\* SpecPause adds the calls, made from the interface thread at any moment
\* of the run.  pause() sets the flag of the thread, of the model and of
\* the autoscaler one after the other; the three are taken as one step.
MaxPauses == 1

\* SimulationThread.pause
Pause ==
    /\ driver_pc # "done"
    /\ ~is_paused
    /\ PauseCount < MaxPauses
    /\ is_paused' = TRUE
    /\ UNCHANGED << cfg, now, evq, queue, idle, requestVars, poolVars,
                    current_index, scalerVars, driver_pc, next_update_time, mc,
                    should_stop, is_running, as_running, stop_log, put_waiting >>
    /\ call_log' = Append(call_log, [ op |-> "pause" ])

\* SimulationThread.resume
Resume ==
    /\ driver_pc # "done"
    /\ is_paused
    /\ is_paused' = FALSE
    /\ UNCHANGED << cfg, now, evq, queue, idle, requestVars, poolVars,
                    current_index, scalerVars, driver_pc, next_update_time, mc,
                    should_stop, is_running, as_running, stop_log, put_waiting >>
    /\ call_log' = Append(call_log, [ op |-> "resume" ])

\* The driver, asleep because the thread was paused, looks again: it leaves
\* its loop when stop was requested and enters the next env.run when the
\* thread is no longer paused
DriverPoll ==
    /\ driver_pc = "paused"
    /\ IF should_stop
       THEN /\ driver_pc' = "done"
            /\ is_running' = FALSE
            /\ as_running' = FALSE
       ELSE /\ ~is_paused
            /\ driver_pc' = "run"
            /\ UNCHANGED << is_running, as_running >>
    /\ UNCHANGED << cfg, now, evq, queue, idle, requestVars, poolVars,
                    current_index, scalerVars, next_update_time, mc, should_stop,
                    is_paused, stop_log, put_waiting, call_log >>

\* the run with pause() never called before the model is constructed
InitPause ==
    InitOf([ BaseConfig EXCEPT !.net_delay_max = 0, !.service_time_max = 1,
                               !.simulation_duration = 11 ])

NextPause ==
    \/ Next
    \/ SamplerPoll
    \/ ControlPoll
    \/ Pause
    \/ Resume
    \/ DriverPoll

SpecPause == InitPause /\ [][NextPause]_vars

\* a step of the driver thread inside its loop: env.run steps an event or
\* returns at the end of the chunk
EnvStep == now' # now \/ evq' # evq \/ driver_pc' # driver_pc

\* SpecPause with the driver thread scheduled again and again and the
\* thread not left paused for ever.  Inside env.run the driver always has
\* a step to take (the first pending event, or the return at target_time),
\* so its weak fairness is written with that enabling condition:
\* it is out of env.run again and again, or steps again and again.
SpecPauseFair ==
    /\ SpecPause
    /\ WF_vars(DriverPoll)
    /\ WF_vars(Resume)
    /\ ([]<>(driver_pc # "run") \/ []<><<EnvStep>>_vars)

\* ------------------------------------------- a run under generous thresholds
\* The run whose low threshold of 1.0 lies above the queue lengths and
\* response times it can see, so that the controller removes a node while
\* requests are with the dispatcher, and which lasts long enough for the
\* supervising loop to wake.
InitLowLoad ==
    InitOf([ BaseConfig EXCEPT !.low_threshold10 = 10, !.high_threshold10 = 50,
                               !.simulation_duration = 11 ])

SpecLowLoad == InitLowLoad /\ [][Next]_vars

\* A run whose cooldown outlasts the arrivals: every request takes 0.3, the
\* first tick at which the controller may act is the one at 0.8
InitLongCooldown ==
    InitOf([ BaseConfig EXCEPT !.net_delay_min = 1, !.net_delay_max = 1,
                               !.service_time_min = 2, !.scale_cooldown = 8,
                               !.simulation_duration = 11 ])

SpecLongCooldown == InitLongCooldown /\ [][Next]_vars

\* A run of three nodes under the generous thresholds whose cooldown of
\* 0.3 is not a multiple of its control interval of 0.2, long enough for
\* two removals
InitShortInterval ==
    InitOf([ BaseConfig EXCEPT !.initial_nodes = 3, !.low_threshold10 = 10,
                               !.high_threshold10 = 50, !.scale_cooldown = 3,
                               !.simulation_duration = 13 ])

SpecShortInterval == InitShortInterval /\ [][Next]_vars

\* SpecShortInterval with the driver thread scheduled again and again:
\* inside env.run the driver always has a step to take (the first pending
\* event, or the return at target_time), so it is out of env.run again and
\* again, or steps again and again.  Every task of the simulation runs
\* inside env.run, which steps the events in the order they are due.
SpecShortIntervalFair ==
    /\ SpecShortInterval
    /\ ([]<>(driver_pc # "run") \/ []<><<EnvStep>>_vars)

\* ------------------------------------- the pool and the balancer on their own
\* add_node, remove_node and select_node are functions of the pool and the
\* cursor alone.  SpecPool applies them in any order to a pool as the
\* constructor leaves it, with the rest of the state at rest, and keeps the
\* calls made in call_log.
MaxCalls == 5
MaxObjects == 3

\* the fields of the state SpecPool leaves alone
restVars == << cfg, now, evq, queue, idle, requests, next_request_id,
               processed_requests, rejected_requests, is_running, as_running,
               last_scale_time, consecutive_low_intervals, interval_start_time,
               interval_queue_lengths, metrics_history, driver_pc,
               next_update_time, should_stop, is_paused, put_waiting, mc,
               scale_log, tick_log, stop_log >>

CallRecord(op, cursor, input, active, node, after, before, pool, result, same) ==
    [ op |-> op, cursor |-> cursor, input |-> input, active |-> active,
      node |-> node, after |-> after, before |-> before, pool |-> pool,
      result |-> result, same |-> same ]

\* CloudSystemModel.__init__ adds the initial nodes; LoadBalancer.__init__
\* sets the cursor to 0
InitPool ==
    /\ cfg = BaseConfig
    /\ now = 0
    /\ evq = << >>
    /\ queue = << >>
    /\ idle = 0
    /\ requests = << >>
    /\ next_request_id = 0
    /\ processed_requests = << >>
    /\ rejected_requests = << >>
    /\ \E k \in 0..(MaxObjects - 1) :
           /\ nodes = InitialPool(k).nodes
           /\ nodeObjs = InitialPool(k).objs
    /\ current_index = 0
    /\ is_running = TRUE
    /\ as_running = TRUE
    /\ last_scale_time = 0
    /\ consecutive_low_intervals = 0
    /\ interval_start_time = 0
    /\ interval_queue_lengths = << >>
    /\ metrics_history = << >>
    /\ driver_pc = "run"
    /\ next_update_time = UpdateInterval
    /\ should_stop = FALSE
    /\ is_paused = FALSE
    /\ put_waiting = NoneVal
    /\ mc = MetricsCollector(MaxHistorySize)
    /\ scale_log = << >>
    /\ tick_log = << >>
    /\ stop_log = << >>
    /\ call_log = << >>

\* a call of add_node
PoolAdd ==
    /\ Len(call_log) < MaxCalls
    /\ Len(nodeObjs) < MaxObjects
    /\ LET p == add_node([ nodes |-> nodes, objs |-> nodeObjs ])
       IN  /\ nodes' = p.nodes
           /\ nodeObjs' = p.objs
           /\ call_log' = Append(call_log,
                  CallRecord("add", current_index, << >>, << >>, NoneVal,
                             current_index, nodes, p.nodes, TRUE, FALSE))
    /\ UNCHANGED << restVars, current_index >>

\* a call of remove_node
PoolRemove ==
    /\ Len(call_log) < MaxCalls
    /\ LET p == remove_node([ nodes |-> nodes, objs |-> nodeObjs ])
       IN  /\ nodes' = p.nodes
           /\ nodeObjs' = p.objs
           /\ call_log' = Append(call_log,
                  CallRecord("remove", current_index, << >>, << >>, NoneVal,
                             current_index, nodes, p.nodes, p.result,
                             p.nodes = nodes /\ p.objs = nodeObjs))
    /\ UNCHANGED << restVars, current_index >>

\* The lists select_node is called with: the active nodes of the pool, as
\* _process_request passes them, and for the function taken alone the empty
\* list and the list of every node created, removed ones included
InputLists ==
    { get_active_nodes(nodes, nodeObjs), << >>,
      [ i \in 1..Len(nodeObjs) |-> i ] }

\* a call of select_node
LBSelect ==
    /\ Len(call_log) < MaxCalls
    /\ \E ns \in InputLists :
           LET sel == select_node(current_index, ns, nodeObjs)
           IN  /\ current_index' = sel.index
               /\ call_log' = Append(call_log,
                      CallRecord("select", current_index, ns,
                                 SelectSeq(ns, LAMBDA n : nodeObjs[n].is_active),
                                 sel.node, sel.index, nodes, nodes, TRUE, TRUE))
    /\ UNCHANGED << restVars, nodes, nodeObjs >>

NextPool ==
    \/ PoolAdd
    \/ PoolRemove
    \/ LBSelect

SpecPool == InitPool /\ [][NextPool]_vars

\* ------------------------------------------- the two averages on their own
\* record_snapshot, get_aggregated_metrics and the interval average of the
\* autoscaler are functions of the samples they are given.  SpecMetrics
\* feeds one series of observations, at increasing times, to a collector of
\* small capacity and to the sampler's list, and keeps in call_log the
\* arguments of every call with the two averages computed after it; the
\* interval average is the one of a tick one sampler period after the
\* observation, the queue length unchanged.
MaxSnapshots == 4

\* the values an observation can carry: the time since the previous one,
\* the queue length and the number of active nodes
ObservationSteps == 1..2
ObservedQueueLengths == 0..2
ObservedNodeCounts == 1..2

InitMetrics ==
    /\ cfg = BaseConfig
    /\ now = 0
    /\ evq = << >>
    /\ queue = << >>
    /\ idle = 0
    /\ requests = << >>
    /\ next_request_id = 0
    /\ processed_requests = << >>
    /\ rejected_requests = << >>
    /\ nodes = InitialPool(cfg.initial_nodes).nodes
    /\ nodeObjs = InitialPool(cfg.initial_nodes).objs
    /\ current_index = 0
    /\ is_running = TRUE
    /\ as_running = TRUE
    /\ last_scale_time = 0
    /\ consecutive_low_intervals = 0
    /\ interval_start_time = 0
    /\ interval_queue_lengths = << >>
    /\ metrics_history = << >>
    /\ driver_pc = "run"
    /\ next_update_time = UpdateInterval
    /\ should_stop = FALSE
    /\ is_paused = FALSE
    /\ put_waiting = NoneVal
    /\ \E k \in 1..(MaxSnapshots - 1) : mc = MetricsCollector(k)
    /\ scale_log = << >>
    /\ tick_log = << >>
    /\ stop_log = << >>
    /\ call_log = << >>

\* one observation: a record_snapshot call on the collector and a sample
\* appended by metrics_collector_loop
Observe ==
    /\ Len(call_log) < MaxSnapshots
    /\ \E dt \in ObservationSteps, q \in ObservedQueueLengths,
          n \in ObservedNodeCounts :
           LET t  == now + dt
               rt == Rat(q * n, TicksPerUnit)
               c1 == record_snapshot(mc, t, q, n, rt)
               s1 == Append(interval_queue_lengths, << t, q >>)
           IN  /\ now' = t
               /\ mc' = c1
               /\ interval_queue_lengths' = s1
               /\ call_log' = Append(call_log,
                      [ sim_time |-> t, queue_length |-> q, nodes_count |-> n,
                        avg_response_time |-> rt,
                        aggregate |-> get_aggregated_metrics(c1).avg_queue_length,
                        interval |-> IntervalQueueLength(
                                         IntervalSamples(s1, t + SamplePeriod, q), q) ])
    /\ UNCHANGED << cfg, evq, queue, idle, requestVars, poolVars, current_index,
                    is_running, as_running, last_scale_time,
                    consecutive_low_intervals, interval_start_time,
                    metrics_history, driver_pc, next_update_time, should_stop,
                    is_paused, put_waiting, scale_log, tick_log, stop_log >>

NextMetrics == Observe

SpecMetrics == InitMetrics /\ [][NextMetrics]_vars

\* ------------------------------------------------------------- properties
Created == 0 .. (next_request_id - 1)
Req(r) == requests[r + 1]
Processed == SeqToSet(processed_requests)
Rejected == SeqToSet(rejected_requests)
ActiveCount == Len(get_active_nodes(nodes, nodeObjs))

\* control_loop has run its first step
ControlStarted == \A i \in 1..Len(evq) : evq[i].k # "ctrl_start"

\* C1: once the control loop has started, the number of active nodes is
\* at least min_nodes and at most max_nodes, for every settings record the
\* constructors accept.
C1_PoolWithinLimits ==
    ControlStarted => cfg.min_nodes <= ActiveCount /\ ActiveCount <= cfg.max_nodes

\* C2: any two consecutive scaling actions are at least scale_cooldown
\* apart in simulated time.
C2_CooldownBetweenScalings ==
    \A i \in 1..(Len(scale_log) - 1) :
        scale_log[i + 1] - scale_log[i] >= cfg.scale_cooldown

C2_TwoScalings == Len(scale_log) >= 2

\* C3: a control tick removes a node only if the scale-down condition held
\* at that tick and at the tick immediately before it.
C3_ScaleDownNeedsTwoLowTicks ==
    \A i \in 1..Len(tick_log) :
        tick_log[i].after < tick_log[i].before =>
            /\ tick_log[i].low
            /\ i > 1
            /\ tick_log[i - 1].low

C3_NodeRemoved ==
    \E i \in 1..Len(tick_log) : tick_log[i].after < tick_log[i].before

\* C4: a control tick changes the pool size by +1, 0 or -1, and no step
\* other than a control tick changes the pool.
C4_OneNodePerTick ==
    [][ /\ Len(nodes') - Len(nodes) \in { -1, 0, 1 }
        /\ nodes' # nodes => (evq # << >> /\ Head(evq).k = "tick") ]_vars

C4_NodeAdded ==
    \E i \in 1..Len(tick_log) : tick_log[i].after = tick_log[i].before + 1

\* r is in the system queue, or is the request of a suspended put
InQueue(r) == r \in SeqToSet(queue) \/ r = put_waiting

\* r is held by a dispatcher worker: between its dequeue and the end of
\* _process_request
HeldByWorker(r) ==
    \/ \E i \in 1..Len(evq) :
           evq[i].k \in { "dispatch", "net", "grant", "svc" } /\ evq[i].r = r
    \/ \E n \in 1..Len(nodeObjs) : r \in SeqToSet(nodeObjs[n].waitq)

\* r was handed to a node: it waits for or holds a slot, or its network
\* delay before the node is running
OnNode(r) ==
    \/ \E i \in 1..Len(evq) : evq[i].k \in { "net", "grant", "svc" } /\ evq[i].r = r
    \/ \E n \in 1..Len(nodeObjs) :
           r \in SeqToSet(nodeObjs[n].waitq) \cup SeqToSet(nodeObjs[n].users)

InFlight == { r \in Created : InQueue(r) \/ HeldByWorker(r) }

NoDuplicates(s) == \A i, j \in 1..Len(s) : i # j => s[i] # s[j]
IsPrefix(a, b) == Len(a) <= Len(b) /\ SubSeq(b, 1, Len(a)) = a

C6_TerminalCollections ==
    /\ [](/\ Processed \cap Rejected = { }
          /\ NoDuplicates(processed_requests)
          /\ NoDuplicates(rejected_requests))
    /\ [][ /\ IsPrefix(processed_requests, processed_requests')
           /\ IsPrefix(rejected_requests, rejected_requests') ]_vars

C6_BothCollectionsUsed ==
    Len(processed_requests) >= 2 /\ Len(rejected_requests) >= 1

\* C7 as claimed: every processed request has
\* finish_time > start_time > queue_entry_time >= arrival_time >= 0 and a
\* response time of finish_time - arrival_time.
C7_StrictTimestamps ==
    \A r \in Processed :
        /\ Req(r).finish_time > Req(r).start_time
        /\ Req(r).start_time > Req(r).queue_entry_time
        /\ Req(r).queue_entry_time >= Req(r).arrival_time
        /\ Req(r).arrival_time >= 0
        /\ get_response_time(Req(r)) = Req(r).finish_time - Req(r).arrival_time

\* C7 as amended: every processed request has
\* finish_time > start_time >= queue_entry_time >= arrival_time >= 0 (a
\* request taken by an idle worker with a zero network delay starts at its
\* queue-entry time) and a response time of finish_time - arrival_time.
C7_Timestamps ==
    \A r \in Processed :
        /\ Req(r).finish_time > Req(r).start_time
        /\ Req(r).start_time >= Req(r).queue_entry_time
        /\ Req(r).queue_entry_time >= Req(r).arrival_time
        /\ Req(r).arrival_time >= 0
        /\ get_response_time(Req(r)) = Req(r).finish_time - Req(r).arrival_time

C7_StartedAtQueueEntry ==
    \E r \in Processed :
        /\ cfg.net_delay_max = 0
        /\ Req(r).start_time = Req(r).queue_entry_time

ReasonCodes == { "queue_full", "wait_timeout", "no_nodes" }

\* C8: a rejected request never gets a start_time, a finish_time or a
\* node, is never handed to a node and never processed; its reason is one
\* of the three codes, is set together with the rejected flag and never
\* changes afterwards.
C8_RejectedIsFinal ==
    /\ [](\A r \in Created :
            /\ Req(r).rejected =>
                  /\ Req(r).start_time = NoneVal
                  /\ Req(r).finish_time = NoneVal
                  /\ Req(r).node_id = NoneVal
                  /\ ~OnNode(r)
                  /\ r \notin Processed
                  /\ Req(r).rejected_reason \in ReasonCodes
            /\ ~Req(r).rejected => Req(r).rejected_reason = "none")
    /\ [][ \A r \in Created :
             Req(r).rejected =>
                 /\ requests'[r + 1].rejected
                 /\ requests'[r + 1].rejected_reason = Req(r).rejected_reason ]_vars

C8_RejectedByDispatcher ==
    /\ \E r \in Created : Req(r).rejected_reason = "wait_timeout"
    /\ \E r \in Created : Req(r).rejected_reason = "queue_full"

\* the requests holding a slot on a node of the pool
SlotHolders ==
    { r \in Created :
        \E i \in 1..Len(nodes) : r \in SeqToSet(nodeObjs[nodes[i]].users) }

\* C9: with max_requests_in_flight configured, a new request is rejected
\* with queue_full at arrival exactly when queue length plus slot holders
\* of the pool is at least the cap; it then goes to rejected, never enters
\* the queue, and its queue_entry_time stays unset.
C9_CapCheckAtArrival ==
    /\ [][ (cfg.max_requests_in_flight # NoneVal
              /\ next_request_id' = next_request_id + 1) =>
           LET r == next_request_id
               over == Len(queue) + Cardinality(SlotHolders)
                           >= cfg.max_requests_in_flight
           IN  /\ (requests'[r + 1].rejected
                     /\ requests'[r + 1].rejected_reason = "queue_full") <=> over
               /\ over => /\ r \in SeqToSet(rejected_requests')
                          /\ r \notin SeqToSet(queue')
                          /\ put_waiting' # r
                          /\ requests'[r + 1].queue_entry_time = NoneVal
               /\ ~over => r \in SeqToSet(queue') \/ put_waiting' = r ]_vars
    /\ [](\A r \in Created :
            Req(r).rejected_reason = "queue_full" =>
                /\ Req(r).queue_entry_time = NoneVal
                /\ ~InQueue(r)
                /\ r \in Rejected)

C9_RejectedAtArrival ==
    \E r \in Created :
        /\ Req(r).rejected_reason = "queue_full"
        /\ SlotHolders # { }
        /\ \E q \in Created : q < r /\ Req(q).queue_entry_time # NoneVal

\* C10 rests on a full queue; the queue never holds more requests than
\* the cap, and no put is ever suspended
QueueBelowCapacity ==
    /\ put_waiting = NoneVal
    /\ cfg.max_requests_in_flight # NoneVal =>
           Len(queue) <= cfg.max_requests_in_flight

\* r has been returned to a worker by queue.get()
Dequeued(r) == Req(r).dequeue_time # NoneVal

\* the time r spent in the queue, at the moment a worker took it
WaitAtDequeue(r) == Req(r).dequeue_time - Req(r).queue_entry_time

\* C11: with max_wait_time configured, a request a worker has dequeued is
\* rejected with wait_timeout exactly when its wait at the dequeue exceeded
\* max_wait_time (a wait equal to it is not rejected); no request is ever
\* rejected with wait_timeout otherwise, and one rejected so is given to no
\* node and does not move the load balancer's cursor.
C11_WaitTimeoutPastLimit ==
    /\ [](\A r \in Created :
            /\ Req(r).rejected_reason = "wait_timeout" =>
                   /\ cfg.max_wait_time # NoneVal
                   /\ Dequeued(r)
                   /\ Req(r).node_ref = NoneVal
                   /\ Req(r).node_id = NoneVal
                   /\ Req(r).start_time = NoneVal
                   /\ ~OnNode(r)
            /\ (cfg.max_wait_time # NoneVal /\ Dequeued(r)) =>
                   (Req(r).rejected_reason = "wait_timeout"
                        <=> WaitAtDequeue(r) > cfg.max_wait_time))
    /\ [][ \A r \in Created :
             (Req(r).rejected_reason # "wait_timeout"
                 /\ requests'[r + 1].rejected_reason = "wait_timeout") =>
                 current_index' = current_index ]_vars

C11_RejectedPastLimitKeptAtLimit ==
    /\ \E r \in Created : Req(r).rejected_reason = "wait_timeout"
    /\ \E r \in Processed : WaitAtDequeue(r) = cfg.max_wait_time

\* the dispatcher workers that have not left their loop: those waiting on
\* the queue and those holding a request
LiveWorkers ==
    idle
    + Cardinality({ i \in 1..Len(evq) :
                      evq[i].k \in { "dispatch", "net", "grant", "svc", "loop" } })
    + SumSeq([ n \in 1..Len(nodeObjs) |-> Len(nodeObjs[n].waitq) ])

\* C12: a request dequeued while no node is active (and not timed out) is
\* rejected with no_nodes and appended to rejected, no network delay or
\* service is started for it, and its worker stays in its loop; no_nodes
\* is given in no other case.
C12_NoNodesRejection ==
    /\ [][ \A r \in Created :
             (~Dequeued(r) /\ requests'[r + 1].dequeue_time # NoneVal) =>
                 /\ (ActiveCount = 0 /\ ~WaitTimedOut(Req(r), now', cfg)) =>
                        /\ requests'[r + 1].rejected
                        /\ requests'[r + 1].rejected_reason = "no_nodes"
                        /\ rejected_requests' = Append(rejected_requests, r)
                        /\ \A i \in 1..Len(evq') : evq'[i].r = r =>
                               evq'[i].k \notin { "net", "grant", "svc" }
                        /\ LiveWorkers' = LiveWorkers
                 /\ requests'[r + 1].rejected_reason = "no_nodes" => ActiveCount = 0 ]_vars
    /\ [](\A r \in Created :
            Req(r).rejected_reason = "no_nodes" =>
                /\ r \in Rejected
                /\ Dequeued(r)
                /\ Req(r).node_ref = NoneVal
                /\ Req(r).start_time = NoneVal
                /\ Req(r).finish_time = NoneVal
                /\ ~OnNode(r))

C12_RejectedThenNextDequeued ==
    \E r, q \in Created :
        /\ r < q
        /\ Req(r).rejected_reason = "no_nodes"
        /\ Dequeued(q)
        /\ Req(q).dequeue_time >= Req(r).dequeue_time
        /\ cfg.max_requests_in_flight # NoneVal

\* the select_node calls of call_log
SelectCalls == { i \in 1..Len(call_log) : call_log[i].op = "select" }

\* the position of node n in the list s
PositionIn(s, n) == CHOOSE i \in 1..Len(s) : s[i] = n

\* calls i .. i + k - 1 are select_node calls on the same active nodes
SameActiveRun(i, k) ==
    /\ i + k - 1 <= Len(call_log)
    /\ \A j \in i..(i + k - 1) :
           j \in SelectCalls /\ call_log[j].active = call_log[i].active

\* C13: with n >= 1 active nodes, a select_node call returns the active
\* node at index (cursor mod n) and leaves the cursor at (cursor + 1) mod
\* n; the next call on the same active nodes returns the next active node
\* in pool order, cyclically, and any n consecutive calls on the same
\* active nodes return each of them exactly once.
C13_RoundRobin ==
    \A i \in SelectCalls :
        LET c == call_log[i]
            n == Len(c.active)
        IN  n >= 1 =>
              /\ c.node = c.active[(c.cursor % n) + 1]
              /\ c.after = (c.cursor + 1) % n
              /\ SameActiveRun(i, 2) =>
                     PositionIn(c.active, call_log[i + 1].node)
                         = (PositionIn(c.active, c.node) % n) + 1
              /\ SameActiveRun(i, n) =>
                     { call_log[j].node : j \in i..(i + n - 1) } = SeqToSet(c.active)

C13_FullCycle ==
    \E i \in SelectCalls :
        /\ Len(call_log[i].active) >= 2
        /\ SameActiveRun(i, Len(call_log[i].active) + 1)

\* C14: select_node returns None exactly when its input holds no active
\* node, and then leaves the cursor unchanged; otherwise it returns a node
\* of its input that is active, also when the cursor is at or past the
\* number of active nodes because the active set shrank.
C14_SelectsActiveMember ==
    \A i \in SelectCalls :
        LET c == call_log[i]
        IN  /\ c.node = NoneVal <=> c.active = << >>
            /\ c.node = NoneVal => c.after = c.cursor
            /\ c.node # NoneVal =>
                   /\ c.node \in SeqToSet(c.input)
                   /\ c.node \in SeqToSet(c.active)
                   /\ c.after \in 0..(Len(c.active) - 1)

C14_CursorPastShrunkSet ==
    /\ \E i \in SelectCalls :
           /\ call_log[i].active # << >>
           /\ call_log[i].cursor >= Len(call_log[i].active)
           /\ Len(call_log[i].input) > Len(call_log[i].active)
    /\ \E i \in SelectCalls :
           call_log[i].input # << >> /\ call_log[i].node = NoneVal

\* C15: no node, in the pool or removed, has more slot holders than its
\* capacity; the requests waiting for a slot are in the node's own
\* wait-list, not among its holders and not in the system queue.
C15_NodeCapacity ==
    \A n \in 1..Len(nodeObjs) :
        /\ Len(nodeObjs[n].users) <= nodeObjs[n].capacity
        /\ SeqToSet(nodeObjs[n].waitq) \cap SeqToSet(nodeObjs[n].users) = { }
        /\ SeqToSet(nodeObjs[n].waitq) \cap SeqToSet(queue) = { }
        /\ SeqToSet(nodeObjs[n].users) \cap SeqToSet(queue) = { }

C15_WaitingBeyondCapacity ==
    \E n \in 1..Len(nodeObjs) :
        /\ Len(nodeObjs[n].users) = nodeObjs[n].capacity
        /\ nodeObjs[n].waitq # << >>

\* C16: the queue hands its requests out in the order they were put in:
\* the queue holds them in the order of their creation, and no request is
\* dequeued while one put in before it is still in the queue.
C16_FifoDequeue ==
    /\ \A i, j \in 1..Len(queue) : i < j => queue[i] < queue[j]
    /\ \A a \in SeqToSet(queue) : \A b \in Created : Dequeued(b) => b < a

C16_DequeuedInPutOrder ==
    \E a, b \in Created :
        /\ a < b
        /\ Dequeued(a) /\ Dequeued(b)
        /\ Req(b).queue_entry_time < Req(a).dequeue_time

\* C17: a node is active exactly while it is in the pool; its flag only
\* ever goes from true to false, in the step that pops it off the end of
\* the pool, and a node once removed stays inactive and out of the pool;
\* so the snapshot's active_nodes equals its total_nodes.
C17_ActiveWhileInPool ==
    /\ [](/\ \A n \in 1..Len(nodeObjs) :
                nodeObjs[n].is_active <=> n \in SeqToSet(nodes)
          /\ get_system_state.active_nodes = get_system_state.total_nodes)
    /\ [][ \A n \in 1..Len(nodeObjs) :
             /\ ~nodeObjs[n].is_active =>
                    ~nodeObjs'[n].is_active /\ n \notin SeqToSet(nodes')
             /\ (nodeObjs[n].is_active /\ ~nodeObjs'[n].is_active) =>
                    nodes = Append(nodes', n) ]_vars

C17_RemovedNodeStaysOut ==
    \E n \in 1..Len(nodeObjs) :
        /\ ~nodeObjs[n].is_active
        /\ nodes # << >>
        /\ now > last_scale_time

\* the add_node and remove_node calls of call_log
PoolCalls == { i \in 1..Len(call_log) : call_log[i].op \in { "add", "remove" } }

\* C18: add_node appends one node to the pool and remove_node takes the
\* last one off, which is the most recently added node still in the pool;
\* the node at pool position i has node_id i; remove_node on an empty pool
\* returns False and changes nothing.
C18_PoolIsAStack ==
    /\ \A i \in 1..Len(nodes) : nodeObjs[nodes[i]].node_id = i - 1
    /\ \A i, j \in 1..Len(nodes) : i < j => nodes[i] < nodes[j]
    /\ \A i \in PoolCalls :
           LET c == call_log[i]
           IN  /\ c.op = "add" =>
                      /\ Len(c.pool) = Len(c.before) + 1
                      /\ SubSeq(c.pool, 1, Len(c.before)) = c.before
                      /\ \A k \in 1..Len(c.before) : c.before[k] < c.pool[Len(c.pool)]
               /\ (c.op = "remove" /\ c.before # << >>) =>
                      /\ c.result
                      /\ c.before = Append(c.pool, c.before[Len(c.before)])
               /\ (c.op = "remove" /\ c.before = << >>) =>
                      ~c.result /\ c.same

C18_RemoveOnEmptyAndReuse ==
    /\ \E i \in PoolCalls :
           call_log[i].op = "remove" /\ call_log[i].before = << >>
    /\ \E i, j \in PoolCalls :
           /\ i < j
           /\ call_log[i].op = "remove" /\ call_log[i].before # << >>
           /\ call_log[j].op = "add"

\* C19: once its running flag is cleared a loop does nothing more: the flag
\* stays cleared, the generator creates no request, the sampler records no
\* sample and the control loop takes no scaling action and leaves the pool
\* alone; requests already with a node may still finish.
C19_NothingNewAfterStop ==
    [][ /\ ~is_running =>
              /\ ~is_running'
              /\ next_request_id' = next_request_id
              /\ Len(requests') = Len(requests)
        /\ ~as_running =>
              /\ ~as_running'
              /\ interval_queue_lengths' = interval_queue_lengths
              /\ metrics_history' = metrics_history
              /\ scale_log' = scale_log
              /\ last_scale_time' = last_scale_time
              /\ nodes' = nodes ]_vars

C19_FinishedAfterStop ==
    /\ stop_log # << >>
    /\ should_stop
    /\ Len(processed_requests) > stop_log[1].processed
    /\ next_request_id = stop_log[1].created

\* C20: once the running flags are cleared and every pending event has
\* been processed, so that no task is still in a suspension that ends by
\* itself, every task has left its loop: no worker is left suspended on
\* the queue, no request waits for a slot, and no put is suspended.
C20_AllTasksTerminate ==
    (~is_running /\ ~as_running /\ evq = << >>) =>
        /\ idle = 0
        /\ put_waiting = NoneVal
        /\ \A n \in 1..Len(nodeObjs) : nodeObjs[n].waitq = << >>

\* C27: request ids are unique and follow the order of arrival: the k-th
\* request created, counting from 0 and counting the rejected ones, has
\* request_id k, and next_request_id is the number of requests created.
C27_RequestIds ==
    /\ next_request_id = Len(requests)
    /\ \A i \in 1..Len(requests) : requests[i].request_id = i - 1
    /\ \A i, j \in 1..Len(requests) :
           /\ i # j => requests[i].request_id # requests[j].request_id
           /\ requests[i].arrival_time < requests[j].arrival_time =>
                  requests[i].request_id < requests[j].request_id

C27_IdAfterRejectedRequest ==
    \E i, j \in 1..Len(requests) :
        /\ i < j
        /\ requests[i].rejected_reason = "queue_full"
        /\ ~requests[j].rejected
        /\ requests[j].queue_entry_time # NoneVal

\* a step of the control loop that evaluated one control tick
ControlTickStep == Len(metrics_history') = Len(metrics_history) + 1

\* the interval metrics the tick of a ControlTickStep decided on
TickMetrics == metrics_history'[Len(metrics_history')]

\* C28: at a control tick a node is added if and only if the interval queue
\* length or the interval response time is above high_threshold, fewer than
\* max_nodes nodes are active and the cooldown since last_scale_time is over;
\* the tick then sets last_scale_time to now and the consecutive-low counter
\* to 0 and removes no node.
C28_ScaleUpRule ==
    [][ ControlTickStep =>
          LET m == TickMetrics
              high == \/ m.queue_length.n * 10 > cfg.high_threshold10 * m.queue_length.d
                      \/ m.avg_response_time.n * 10 >
                             cfg.high_threshold10 * m.avg_response_time.d
              rule == /\ high
                      /\ m.active_nodes < cfg.max_nodes
                      /\ now' - last_scale_time >= cfg.scale_cooldown
              added == Len(nodes') = Len(nodes) + 1
          IN  /\ rule <=> added
              /\ added =>
                     /\ SubSeq(nodes', 1, Len(nodes)) = nodes
                     /\ last_scale_time' = now'
                     /\ consecutive_low_intervals' = 0 ]_vars

C28_AddedOnResponseTimeAlone ==
    /\ metrics_history # << >>
    /\ LET m == metrics_history[Len(metrics_history)]
       IN  /\ m.time = now
           /\ m.queue_length.n * 10 <= cfg.high_threshold10 * m.queue_length.d
           /\ m.avg_response_time.n * 10 > cfg.high_threshold10 * m.avg_response_time.d
           /\ Len(nodes) = m.active_nodes + 1
           /\ last_scale_time = now

\* C29: after a control tick the consecutive-low counter is 0 when the tick
\* took a scaling action or when the scale-down condition (queue length and
\* response time below low_threshold, more than min_nodes active, cooldown
\* over) was false; between ticks the counter is 0 or 1.
C29_CounterReset ==
    /\ [](consecutive_low_intervals \in { 0, 1 })
    /\ [][ ControlTickStep =>
             LET m == TickMetrics
                 lowLoad == /\ m.queue_length.n * 10 < cfg.low_threshold10 * m.queue_length.d
                            /\ m.avg_response_time.n * 10 <
                                   cfg.low_threshold10 * m.avg_response_time.d
                 condition == /\ lowLoad
                              /\ m.active_nodes > cfg.min_nodes
                              /\ now' - last_scale_time >= cfg.scale_cooldown
             IN  (nodes' # nodes \/ ~condition) => consecutive_low_intervals' = 0 ]_vars

C29_ResetAfterOneLowTick ==
    \E i \in 1..Len(tick_log) :
        /\ i + 1 = Len(tick_log)
        /\ tick_log[i].low /\ tick_log[i].after = tick_log[i].before
        /\ ~tick_log[i + 1].low /\ tick_log[i + 1].after = tick_log[i + 1].before
        /\ consecutive_low_intervals = 0

\* the processed requests that finished in the closed interval [start, end]
FinishedWithin(start, end) ==
    { i \in 1..Len(requests) :
        /\ requests[i].request_id \in SeqToSet(processed_requests)
        /\ requests[i].finish_time >= start
        /\ requests[i].finish_time <= end }

\* the sum of the response times, in ticks, of the requests of S
ResponseTimeSum(S) ==
    SumSeq([ i \in 1..Len(requests) |->
               IF i \in S THEN requests[i].finish_time - requests[i].arrival_time
               ELSE 0 ])

\* the fraction a is the mean, in time units, of the response times of S
IsMeanOf(a, S) ==
    IF S = { } THEN a.n = 0
    ELSE a.n * Cardinality(S) * TicksPerUnit = ResponseTimeSum(S) * a.d

\* C30: the interval response time of a control tick is the arithmetic mean
\* of the response times of exactly the processed requests whose finish_time
\* lies in [interval_start, interval_end]; when none finished there it is
\* the mean over all processed requests, 0 when there is none.
C30_IntervalResponseTime ==
    [][ ControlTickStep =>
          LET inInterval == FinishedWithin(interval_start_time, now')
              all == FinishedWithin(0, now')
          IN  IF inInterval # { }
              THEN IsMeanOf(TickMetrics.avg_response_time, inInterval)
              ELSE IsMeanOf(TickMetrics.avg_response_time, all) ]_vars

C30_IntervalMeanDiffersFromOverall ==
    /\ metrics_history # << >>
    /\ metrics_history[Len(metrics_history)].time = now
    /\ interval_start_time = now
    /\ LET a == metrics_history[Len(metrics_history)].avg_response_time
       IN  /\ a.n > 0
           /\ ~IsMeanOf(a, FinishedWithin(0, now))

\* the settings a validating constructor would accept
ValidConfig(c) ==
    /\ c.min_nodes <= c.max_nodes
    /\ c.min_nodes <= c.initial_nodes
    /\ c.initial_nodes <= c.max_nodes

\* C26: a run constructed from an invalid settings record (min_nodes above
\* max_nodes, initial_nodes outside [min_nodes, max_nodes]) has failed at
\* construction: no task is scheduled, the driver loop is not entered, no
\* request is created and the controller changes no node.
C26_InvalidConfigFailsAtConstruction ==
    ~ValidConfig(cfg) =>
        /\ evq = << >>
        /\ driver_pc # "run"
        /\ next_request_id = 0
        /\ scale_log = << >>

\* C23: after k record_snapshot calls on a collector of capacity C each of
\* the four series has length min(k, C) and holds, in call order, the
\* arguments of the most recent min(k, C) calls; entry i of every series
\* comes from the same call.
C23_SeriesHoldLatestCalls ==
    LET k == Len(call_log)
        m == Min(k, mc.max_history_size)
    IN  /\ Len(mc.time_series) = m
        /\ Len(mc.queue_length_series) = m
        /\ Len(mc.nodes_count_series) = m
        /\ Len(mc.avg_response_time_series) = m
        /\ \A i \in 1..m :
               LET c == call_log[k - m + i]
               IN  /\ mc.time_series[i] = c.sim_time
                   /\ mc.queue_length_series[i] = c.queue_length
                   /\ mc.nodes_count_series[i] = c.nodes_count
                   /\ mc.avg_response_time_series[i] = c.avg_response_time

C23_OldestSnapshotsDropped ==
    /\ mc.max_history_size >= 2
    /\ Len(call_log) >= mc.max_history_size + 2
    /\ \E i, j \in 1..Len(call_log) :
           /\ call_log[i].queue_length # call_log[j].queue_length
           /\ call_log[i].nodes_count # call_log[j].nodes_count

\* the mean of the queue lengths qs over the times ts by the trapezoidal
\* rule, as a fraction
TrapezoidMean(ts, qs) ==
    Rat(SumSeq([ i \in 1..(Len(ts) - 1) |-> (qs[i] + qs[i + 1]) * (ts[i + 1] - ts[i]) ]),
        2 * (ts[Len(ts)] - ts[1]))

SameValue(a, b) == a.n * b.d = b.n * a.d

\* C24: the aggregate's avg_queue_length of a series of at least two
\* samples with positive elapsed time is the trapezoidal integral of the
\* queue length over time divided by the elapsed time; of a series of one
\* sample it is the simple mean.
C24_AggregateIsTrapezoidal ==
    LET ts == mc.time_series
        qs == mc.queue_length_series
        avg == get_aggregated_metrics(mc).avg_queue_length
    IN  /\ (Len(ts) >= 2 /\ ts[Len(ts)] > ts[1]) =>
               SameValue(avg, TrapezoidMean(ts, qs))
        /\ Len(ts) = 1 => SameValue(avg, Rat(SumSeq(qs), Len(qs)))

\* C25: when every sample of a series of at least one sample, taken at
\* increasing times, has the same queue length c, the collector's aggregate
\* average and the autoscaler's interval average are both c.
C25_ConstantSeriesAveragesToConstant ==
    \A c \in ObservedQueueLengths :
        /\ (/\ mc.queue_length_series # << >>
            /\ \A i \in 1..Len(mc.queue_length_series) : mc.queue_length_series[i] = c)
           => SameValue(call_log[Len(call_log)].aggregate, Rat(c, 1))
        /\ (/\ interval_queue_lengths # << >>
            /\ \A i \in 1..Len(interval_queue_lengths) : interval_queue_lengths[i][2] = c)
           => SameValue(call_log[Len(call_log)].interval, Rat(c, 1))

C25_ConstantOverUnequalSteps ==
    /\ Len(mc.time_series) >= 3
    /\ Len(interval_queue_lengths) >= 3
    /\ \A i \in 1..Len(interval_queue_lengths) : interval_queue_lengths[i][2] = 2
    /\ mc.time_series[2] - mc.time_series[1] # mc.time_series[3] - mc.time_series[2]

\* a step in which the driver did its work between two chunks
DriverWorkStep == Len(mc'.time_series) > Len(mc.time_series)

\* C22: the work the driver does between two chunks (update_requests,
\* get_current_metrics, record_snapshot, get_system_state, get_time_series,
\* get_aggregated_metrics) leaves the simulation state as it was: the queue,
\* the pool and its nodes, the model's processed and rejected lists, the
\* requests, the cursor and the autoscaler's state.
C22_DriverOnlyReads ==
    [][ DriverWorkStep =>
          /\ queue' = queue
          /\ nodes' = nodes
          /\ nodeObjs' = nodeObjs
          /\ processed_requests' = processed_requests
          /\ rejected_requests' = rejected_requests
          /\ requests' = requests
          /\ next_request_id' = next_request_id
          /\ current_index' = current_index
          /\ last_scale_time' = last_scale_time
          /\ consecutive_low_intervals' = consecutive_low_intervals
          /\ interval_start_time' = interval_start_time
          /\ interval_queue_lengths' = interval_queue_lengths
          /\ metrics_history' = metrics_history ]_vars

C22_SnapshotOfBusySystem ==
    /\ driver_pc = "run"
    /\ mc.time_series # << >>
    /\ mc.time_series[Len(mc.time_series)] = now
    /\ mc.processed_requests # << >>
    /\ mc.processed_requests = processed_requests
    /\ mc.rejected_requests # << >>
    /\ mc.total_requests < next_request_id
    /\ interval_queue_lengths # << >>

\* C21: from pause() until resume() simulated time does not advance and no
\* request is generated, dispatched (taken from the queue) or finished,
\* wherever in the driver's current chunk the pause() call falls.
C21_NothingMovesWhilePaused ==
    [][ (is_paused /\ is_paused') =>
          /\ now' = now
          /\ next_request_id' = next_request_id
          /\ queue' = queue
          /\ processed_requests' = processed_requests ]_vars

\* C33: with max_requests_in_flight configured, the number of requests in
\* flight (created and neither processed nor rejected: queued, in network
\* delay, waiting for a slot or holding one on any node) is at most
\* max_requests_in_flight.
C33_InFlightWithinCap ==
    cfg.max_requests_in_flight # NoneVal =>
        Cardinality(InFlight) <= cfg.max_requests_in_flight

\* C34: when a request is handed to a node (node_id and start_time are
\* stamped and a slot is requested) that node is active and in the pool.
C34_HandedToActiveNode ==
    [][ \A i \in 1..Len(requests) :
          (requests[i].start_time = NoneVal /\ requests'[i].start_time # NoneVal) =>
              /\ nodeObjs[requests'[i].node_ref].is_active
              /\ requests'[i].node_ref \in SeqToSet(nodes) ]_vars

\* C37: with max_requests_in_flight configured the system queue never
\* holds more than max_requests_in_flight requests, so it stays below its
\* capacity of 10 * max_requests_in_flight and the generator's put is never
\* suspended.
C37_QueueWithinCap ==
    cfg.max_requests_in_flight # NoneVal =>
        /\ Len(queue) <= cfg.max_requests_in_flight
        /\ Len(queue) < QueueCapacity(cfg)
        /\ QueueHasRoom(queue, cfg)
        /\ put_waiting = NoneVal

C37_QueueAtCap ==
    /\ cfg.max_requests_in_flight # NoneVal
    /\ Len(queue) = cfg.max_requests_in_flight
    /\ \E i \in 1..Len(requests) : requests[i].rejected_reason = "queue_full"

\* the node after n in the rotation over the list s
SuccessorIn(s, n) == s[(PositionIn(s, n) % Len(s)) + 1]

\* C32: two consecutive select_node calls on the same two or more active
\* nodes, with no resize of the pool between them, never return the same
\* node and never skip one: the second returns the successor of the first
\* in the rotation.  (A resize between two calls can make a call skip a
\* node: the state C32_SkipAfterResize.)
C32_NoRepeatOrSkipWithoutResize ==
    \A i \in SelectCalls :
        (SameActiveRun(i, 2) /\ Len(call_log[i].active) >= 2) =>
            /\ call_log[i + 1].node # call_log[i].node
            /\ call_log[i + 1].node = SuccessorIn(call_log[i].active, call_log[i].node)

C32_SkipAfterResize ==
    \E i \in SelectCalls :
        /\ i + 2 \in SelectCalls
        /\ i + 1 \in PoolCalls
        /\ call_log[i + 1].pool # call_log[i + 1].before
        /\ call_log[i].input = call_log[i + 1].before
        /\ call_log[i + 2].input = call_log[i + 1].pool
        /\ call_log[i].active = call_log[i].input
        /\ call_log[i + 2].active = call_log[i + 2].input
        /\ Len(call_log[i].active) >= 2
        /\ Len(call_log[i + 2].active) >= 2
        /\ call_log[i].node \in SeqToSet(call_log[i + 2].active)
        /\ \/ call_log[i + 2].node = call_log[i].node
           \/ call_log[i + 2].node #
                  SuccessorIn(call_log[i + 2].active, call_log[i].node)

\* request_processor has taken its first step and started the workers
WorkersStarted == \A i \in 1..Len(evq) : evq[i].k # "proc_start"

\* the slots of the active nodes
ActiveSlots ==
    SumSeq([ i \in 1..Len(nodes) |->
               IF nodeObjs[nodes[i]].is_active THEN nodeObjs[nodes[i]].capacity ELSE 0 ])

IdleInterval ==
    LET samples == IntervalSamples(interval_queue_lengths, now', Len(queue))
    IN  /\ \A i \in 1..Len(samples) : samples[i][2] = 0
        /\ FinishedWithin(interval_start_time, now') = { }

\* C39 as claimed: a control tick that closes an idle interval adds no node.
C39_NoScaleUpOnIdleInterval ==
    [][ (ControlTickStep /\ IdleInterval) => Len(nodes') <= Len(nodes) ]_vars

\* C39: a control tick that closes an idle interval adds a node if and
\* only if the mean response time over all the requests processed so far
\* is above high_threshold, fewer than max_nodes nodes are active and the
\* cooldown is over; it adds none when no request has been processed yet.
C39_IdleIntervalUsesOverallMean ==
    [][ (ControlTickStep /\ IdleInterval) =>
          LET all == FinishedWithin(0, now')
              high == ResponseTimeSum(all) * 10 >
                          cfg.high_threshold10 * Cardinality(all) * TicksPerUnit
              added == Len(nodes') = Len(nodes) + 1
          IN  /\ added <=> /\ high
                           /\ Len(get_active_nodes(nodes, nodeObjs)) < cfg.max_nodes
                           /\ now' - last_scale_time >= cfg.scale_cooldown
              /\ all = { } => ~added ]_vars

C39_AddedAfterIdleInterval ==
    /\ Len(metrics_history) >= 2
    /\ LET m == metrics_history[Len(metrics_history)]
           prev == metrics_history[Len(metrics_history) - 1]
       IN  /\ m.time = now
           /\ last_scale_time = now
           /\ Len(nodes) = m.active_nodes + 1
           /\ m.queue_length.n = 0
           /\ queue = << >>
           /\ FinishedWithin(prev.time, now) = { }
           /\ FinishedWithin(0, now) # { }

\* a step of the driver: the end of a chunk or the end of a pause sleep
DriverStep == driver_pc' # driver_pc \/ next_update_time' # next_update_time

\* C40: simulated time never passes simulation_duration; a driver that
\* left its loop without a stop request left it at simulation_duration;
\* once stop() has been requested time goes no further than the end of
\* the chunk in progress and the next step of the driver leaves the loop,
\* also when the thread is paused; and the loop is left in the end.
C40_DriverLoopBounded ==
    /\ [](now <= cfg.simulation_duration)
    /\ []((driver_pc = "done" /\ ~should_stop) => now = cfg.simulation_duration)
    /\ [][ should_stop =>
             /\ now' <= Min(next_update_time, cfg.simulation_duration)
             /\ DriverStep => driver_pc' = "done" ]_vars
    /\ (should_stop ~> driver_pc = "done")
    /\ <>(driver_pc = "done")

C40_StoppedWhilePaused ==
    /\ driver_pc = "done"
    /\ should_stop
    /\ is_paused
    /\ stop_log # << >>
    /\ now < cfg.simulation_duration

\* no event is due at the current time
Quiescent == IF evq = << >> THEN TRUE ELSE Head(evq).t > now

\* the dispatcher workers that hold a request: in its network delay,
\* waiting for a node slot or in service
HoldingWorkers ==
    Cardinality({ i \in 1..Len(evq) : evq[i].k \in { "net", "grant", "svc" } })
    + SumSeq([ n \in 1..Len(nodeObjs) |-> Len(nodeObjs[n].waitq) ])

\* requests wait in the queue of a run that is on and not paused, and no
\* event is due now
QueueWaiting ==
    /\ Quiescent
    /\ queue # << >>
    /\ is_running
    /\ ~is_paused
    /\ WorkersStarted

\* C38: when no event is due now, the queue is not empty and the run is
\* on and not paused, no dispatcher worker waits on the queue and every
\* dispatcher worker holds a request.
C38_AllWorkersHoldRequest ==
    QueueWaiting =>
        /\ idle = 0
        /\ HoldingWorkers = NumWorkers(cfg)

\* the control tick j took a scaling action
ScalingTick(j) == tick_log[j].after # tick_log[j].before

\* the control tick j removed a node
ScaleDownTick(j) == tick_log[j].after < tick_log[j].before

\* the time of the last scaling action before tick j, 0 when there is none
LastActionBefore(j) ==
    LET acts == { i \in 1..(j - 1) : ScalingTick(i) }
    IN  IF acts = { } THEN 0
        ELSE tick_log[CHOOSE i \in acts : \A k \in acts : k <= i].time

\* the interval metrics of tick k showed low load: queue length and
\* response time below low_threshold with more than min_nodes nodes active
LowLoadTick(k) ==
    LET m == metrics_history[k]
    IN  /\ m.queue_length.n * 10 < cfg.low_threshold10 * m.queue_length.d
        /\ m.avg_response_time.n * 10 < cfg.low_threshold10 * m.avg_response_time.d
        /\ m.active_nodes > cfg.min_nodes

\* C36: a scale-down at tick j, with t the time of the last scaling action
\* before it (0 at the start), comes at least one control_interval after a
\* tick later than t at which now - t >= scale_cooldown, the low-load
\* ticks inside the cooldown window not counting; two scale-downs are at
\* least scale_cooldown + control_interval apart.
C36_ScaleDownAfterCooldown ==
    \A j \in 1..Len(tick_log) :
        ScaleDownTick(j) =>
            LET t == LastActionBefore(j)
            IN  /\ \E k \in 1..(j - 1) :
                       /\ tick_log[k].time > t
                       /\ tick_log[k].time - t >= cfg.scale_cooldown
                       /\ tick_log[j].time >= tick_log[k].time + cfg.control_interval
                /\ tick_log[j].time - t >= cfg.scale_cooldown + cfg.control_interval
                /\ \A i \in 1..(j - 1) :
                       ScaleDownTick(i) =>
                           tick_log[j].time - tick_log[i].time >=
                               cfg.scale_cooldown + cfg.control_interval

C36_LowTickInsideCooldown ==
    /\ Len(metrics_history) = Len(tick_log)
    /\ \E i, k, j \in 1..Len(tick_log) :
           /\ i < k
           /\ k < j
           /\ ScaleDownTick(i)
           /\ ScaleDownTick(j)
           /\ LowLoadTick(k)
           /\ tick_log[k].time - tick_log[i].time < cfg.scale_cooldown
           /\ tick_log[j].time - tick_log[i].time > cfg.scale_cooldown + cfg.control_interval

\* request r has reached one of the two collections
Terminal(r) == r \in Processed \/ r \in Rejected

====
